---- MODULE Spec2Model ----
(***************************************************************************)
(* Model of zkt-eco.py: the attendance synchronisation script.  It loads   *)
(* the device list once, then sweeps over the devices for ever: per device *)
(* it connects, disables intake, reads the punches and the users, filters  *)
(* the punches by the persisted last_sync_date, reduces them to first/last *)
(* per day and user, stores a snapshot, re-enables and disconnects, posts  *)
(* the payload, ships and clears the log file and rewrites last_sync_date. *)
(*                                                                         *)
(* Time is counted in ticks; a calendar day has TicksPerDay ticks.  A      *)
(* date-time string is modelled as the tuple of its date part and its      *)
(* time-of-day part, and strings are compared lexicographically.           *)
(***************************************************************************)
EXTENDS Integers, Sequences, FiniteSets, TLC

\* ---------------------------------------------------------------- bounds
\* ticks in a calendar day
TicksPerDay == 2
\* the clock stops advancing at MaxTime
MaxTime == 2
\* punches made on all terminals together while the script runs
MaxEvents == 1
\* longest list of records given to the filter and the reducer on their own
MaxLen == 3
\* latest timestamp, watermark and clock reading given to them
PipeMaxTs == 2

\* ------------------------------------------------- values of the program
\* the terminals of the registry, and the users who punch on them
Devices == {1, 2}
Users == {1}
PipeUsers == {1, 2}
Statuses == {0, 1}
\* the users enrolled on a terminal, as get_users lists them
Enrolled == Users
\* the status code of the punches made while the script runs
PunchStatuses == {0}

\* user_map.get(record.user_id, "Unknown User"): the placeholder name
Unknown_User == 0
\* a punch whose timestamp cannot be rendered by strftime
BadTs == -1
\* the literal offset suffix written by strftime("...+05:45")
Offset == "+05:45"
\* last_sync_date.json missing or unparsable
NoFile == <<>>
\* fetch_attendance_data returned None
None == [some |-> FALSE, data |-> <<>>]
Some(payload) == [some |-> TRUE, data |-> payload]

\* --------------------------------------------------------- conversions
\* record.timestamp.strftime('%Y-%m-%d %H:%M:%S')
strftime(t) == <<t \div TicksPerDay, t % TicksPerDay>>
\* datetime.strptime(s, "%Y-%m-%d %H:%M:%S")
strptime(s) == s[1] * TicksPerDay + s[2]
\* original_time.strftime("%Y-%m-%dT%H:%M:%S+05:45")
strftime_iso(t) == <<t \div TicksPerDay, t % TicksPerDay, Offset>>
\* datetime.fromisoformat(last_sync_data["last_sync_date"])
fromisoformat(s) == s[1] * TicksPerDay + s[2]
\* current_time.strftime("%Y-%m-%dT00:00:00+05:45")
strftime_midnight(t) == <<t \div TicksPerDay, 0, Offset>>
\* formatted_time.split("T")[0]
date_str(s) == s[1]
\* x["time"] < y["time"] on strings of the same fixed-width format
StrLess(a, b) == a[1] < b[1] \/ (a[1] = b[1] /\ a[2] < b[2])

\* ------------------------------------------------------ pure functions
\* the list comprehension of filter_data, with the watermark file content
\* and the clock reading passed in
filter_data_strict(records, file, current_time) ==
    SelectSeq(records, LAMBDA record :
        /\ fromisoformat(file) < strptime(record.time)
        /\ strptime(record.time) <= current_time)

filter_data_open(records, file, current_time) ==
    SelectSeq(records, LAMBDA record : strptime(record.time) <= current_time)

filter_data(records, file, current_time) ==
    SelectSeq(records, LAMBDA record :
        /\ fromisoformat(file) <= strptime(record.time)
        /\ strptime(record.time) <= current_time)

\* one step of the stable sort: r goes after every element whose key is not
\* greater than its own
InsertByTime(s, r) ==
    LET k == Cardinality({i \in 1..Len(s) : ~StrLess(r.time, s[i].time)})
    IN  SubSeq(s, 1, k) \o <<r>> \o SubSeq(s, k + 1, Len(s))

RECURSIVE sorted_unstable(_)
sorted_unstable(records) ==
    IF records = <<>> THEN <<>>
    ELSE LET rest == sorted_unstable(Tail(records))
             r == Head(records)
             k == Cardinality({i \in 1..Len(rest) : ~StrLess(r.time, rest[i].time)})
         IN  SubSeq(rest, 1, k) \o <<r>> \o SubSeq(rest, k + 1, Len(rest))

\* sorted(records, key=lambda x: x["time"]): Python's sort is stable
RECURSIVE sorted(_)
sorted(records) ==
    IF records = <<>> THEN <<>>
    ELSE InsertByTime(sorted(SubSeq(records, 1, Len(records) - 1)),
                      records[Len(records)])

\* lines 108-112: the first record, and the last one if it differs
first_and_last_always(sorted_records) ==
    IF Len(sorted_records) > 1
    THEN <<sorted_records[1], sorted_records[Len(sorted_records)]>>
    ELSE <<sorted_records[1]>>

first_and_last(sorted_records) ==
    IF Len(sorted_records) > 1
       /\ sorted_records[1] # sorted_records[Len(sorted_records)]
    THEN <<sorted_records[1], sorted_records[Len(sorted_records)]>>
    ELSE <<sorted_records[1]>>

\* lines 86-98: every record gets its time rewritten with the offset
Stamped(records) ==
    [i \in 1..Len(records) |->
        [records[i] EXCEPT !.time = strftime_iso(strptime(@))]]

formatted_attendance_data(records) ==
    LET stamped == Stamped(records)
        dates == {date_str(stamped[i].time) : i \in 1..Len(stamped)}
        usersOn(d) == {stamped[i].user_id :
                         i \in {j \in 1..Len(stamped) : date_str(stamped[j].time) = d}}
        bucket(d, u) == SelectSeq(stamped, LAMBDA r :
                            date_str(r.time) = d /\ r.user_id = u)
        kept(d, u) == first_and_last(sorted(bucket(d, u)))
    IN  [d \in dates |-> [u \in usersOn(d) |->
            [i \in 1..Len(kept(d, u)) |->
                [user_id |-> u,
                 user_name |-> kept(d, u)[1].user_name,
                 time |-> kept(d, u)[i].time,
                 status |-> kept(d, u)[i].status]]]]

\* lines 174-188: the dictionaries built from the device's punches
to_attendance_data(attendance, user_map) ==
    [i \in 1..Len(attendance) |->
        [user_id |-> attendance[i].user_id,
         user_name |-> IF attendance[i].user_id \in user_map
                       THEN attendance[i].user_id ELSE Unknown_User,
         time |-> strftime(attendance[i].timestamp),
         status |-> attendance[i].status]]

\* ---------------------------------------------------------------- state
VARIABLES
    pc,               \* position of the script
    device_list,      \* the list returned by get_device_data
    idx,              \* position of the for loop in device_list
    now,              \* the wall clock, in ticks
    last_sync_file,   \* content of last_sync_date.json, or NoFile
    events,           \* per device: the punches stored on the terminal
    disabled,         \* per device: intake disabled (disable_device in force)
    session,          \* per device: a session is open
    conn,             \* fetch_attendance_data: conn is not None
    attendance,       \* fetch_attendance_data: result of get_attendance
    user_map,         \* fetch_attendance_data: ids found by get_users
    attendance_data,  \* fetch_attendance_data: the list of dictionaries
    filtered,         \* fetch_attendance_data: filtered_attendance_data
    fetched_data,     \* __main__: the value fetch_attendance_data returned
    snapshot,         \* content of attendance_records.json
    log,              \* levels of the entries held by attendance_logs.log
    cyc,              \* what has happened in the current device cycle
    outcomes,         \* per device of the current sweep: how its cycle ended
    commits,          \* the values written to last_sync_date.json so far
    sentCommitted,    \* per device: records of cycles delivered and committed
    filteredSent      \* per device: records that passed the filter and were posted

vars == <<pc, device_list, idx, now, last_sync_file, events, disabled, session,
          conn, attendance, user_map, attendance_data, filtered, fetched_data,
          snapshot, log, cyc, outcomes, commits, sentCommitted, filteredSent>>

devVars == <<events, disabled, session>>
localVars == <<conn, attendance, user_map, attendance_data, filtered, fetched_data>>
histVars == <<outcomes, commits, sentCommitted, filteredSent>>

\* the device the for loop is at
dev == device_list[idx]

\* the device lists get_device_data can return ([] on any failure)
DeviceLists == {[i \in 1..n |-> i] : n \in 0..Cardinality(Devices)}

\* the watermark values the file can hold at start-up
Watermarks == {strftime_iso(t) : t \in 0..MaxTime}

NoCycle == [wmBefore |-> NoFile, cause |-> "none", signal |-> "none",
            connected |-> FALSE, deliver |-> "none", logPost |-> "none",
            committed |-> FALSE, nowFilter |-> -1, teardown |-> "none",
            snapBefore |-> None]

TotalEvents == LET RECURSIVE Sum(_)
                   Sum(S) == IF S = {} THEN 0
                             ELSE LET d == CHOOSE x \in S : TRUE
                                  IN  Len(events[d]) + Sum(S \ {d})
               IN  Sum(Devices)

\* the set of (user, time, status) of a list of dictionaries
RecordsOf(records) == {[user_id |-> records[i].user_id,
                        time |-> records[i].time,
                        status |-> records[i].status] : i \in 1..Len(records)}

Init ==
    /\ pc = "start"
    /\ device_list = <<>>
    /\ idx = 1
    /\ now = 0
    /\ last_sync_file \in Watermarks \cup {NoFile}
    /\ events = [d \in Devices |-> <<>>]
    /\ disabled = [d \in Devices |-> FALSE]
    /\ session = [d \in Devices |-> FALSE]
    /\ conn = FALSE
    /\ attendance = <<>>
    /\ user_map = {}
    /\ attendance_data = <<>>
    /\ filtered = <<>>
    /\ fetched_data = None
    /\ snapshot = None
    /\ log = {}
    /\ cyc = NoCycle
    /\ outcomes = <<>>
    /\ commits = {}
    /\ sentCommitted = [d \in Devices |-> {}]
    /\ filteredSent = [d \in Devices |-> {}]

\* ------------------------------------------------------------ environment
\* the clock advances
Tick ==
    /\ pc \notin {"start", "terminated"}
    /\ now < MaxTime
    /\ now' = now + 1
    /\ UNCHANGED <<pc, device_list, idx, last_sync_file, devVars, localVars,
                   snapshot, log, cyc, histVars>>

\* somebody punches on a terminal whose intake is enabled
Punch ==
    /\ pc \notin {"start", "terminated"}
    /\ TotalEvents < MaxEvents
    /\ \E d \in Devices, u \in Users, s \in PunchStatuses :
         /\ ~disabled[d]
         /\ events' = [events EXCEPT ![d] =
                          Append(@, [user_id |-> u, timestamp |-> now, status |-> s])]
    /\ UNCHANGED <<pc, device_list, idx, now, last_sync_file, disabled, session,
                   localVars, snapshot, log, cyc, histVars>>

\* ------------------------------------------------------------- start-up
\* lines 325-327 and 349-350: load the device list once
get_device_data ==
    /\ pc = "start"
    /\ \E dl \in DeviceLists :
         /\ device_list' = dl
         /\ pc' = IF dl = <<>> THEN "terminated" ELSE "process"
         /\ log' = IF dl = <<>> THEN {"INFO", "ERROR"} ELSE {"INFO"}
    /\ UNCHANGED <<idx, now, last_sync_file, devVars, localVars, snapshot, cyc,
                   histVars>>

\* ------------------------------------------------------ the device cycle
\* line 205: the message logged for whatever fetch_attendance_data catches
FetchErrorSignal == "unable_to_fetch"

\* the except clause of fetch_attendance_data: log, then go to finally
Caught(cause) ==
    /\ cyc' = [cyc EXCEPT !.cause = cause, !.signal = FetchErrorSignal]
    /\ log' = log \cup {"ERROR"}
    /\ pc' = "finally"

\* where __main__ goes when an exception escapes fetch_attendance_data or
\* updateTheLastSyncDate: its except clause logs and the for loop goes on
OnEscapeAbort == "sleep"

OnEscape == "main_except"

\* lines 329-336: the for loop enters the cycle of the next device
StartCycle ==
    /\ pc = "process"
    /\ pc' = "connect"
    /\ log' = log \cup {"INFO"}
    /\ cyc' = [NoCycle EXCEPT !.wmBefore = last_sync_file, !.snapBefore = snapshot]
    /\ UNCHANGED <<device_list, idx, now, last_sync_file, devVars, localVars,
                   snapshot, histVars>>

\* line 161: conn = zk.connect()
Connect ==
    /\ pc = "connect"
    /\ \E ok \in BOOLEAN :
         IF ok
         THEN /\ conn' = TRUE
              /\ session' = [session EXCEPT ![dev] = TRUE]
              /\ cyc' = [cyc EXCEPT !.connected = TRUE]
              /\ pc' = "disable"
              /\ UNCHANGED log
         ELSE /\ Caught("connect")
              /\ UNCHANGED <<conn, session>>
    /\ UNCHANGED <<device_list, idx, now, last_sync_file, events, disabled,
                   attendance, user_map, attendance_data, filtered, fetched_data,
                   snapshot, histVars>>

\* a cycle that reads the terminal without suspending its intake
DisableDevice_skipped ==
    /\ pc = "disable"
    /\ pc' = "get_attendance"
    /\ UNCHANGED <<device_list, idx, now, last_sync_file, devVars, localVars,
                   snapshot, log, cyc, histVars>>

\* line 162: conn.disable_device()
DisableDevice ==
    /\ pc = "disable"
    /\ \E ok \in BOOLEAN :
         IF ok
         THEN /\ disabled' = [disabled EXCEPT ![dev] = TRUE]
              /\ pc' = "get_attendance"
              /\ UNCHANGED <<log, cyc>>
         ELSE /\ Caught("disable")
              /\ UNCHANGED disabled
    /\ UNCHANGED <<device_list, idx, now, last_sync_file, events, session,
                   localVars, snapshot, histVars>>

\* what get_attendance decodes from the terminal's storage: the stored
\* punches and, when bad > 0, at place bad one more event whose timestamp
\* strftime cannot render
Decoded(stored, bad) ==
    IF bad = 0 THEN stored
    ELSE SubSeq(stored, 1, bad - 1)
         \o <<[user_id |-> 1, timestamp |-> BadTs, status |-> 0]>>
         \o SubSeq(stored, bad, Len(stored))

\* line 165: attendance = conn.get_attendance()
GetAttendance ==
    /\ pc = "get_attendance"
    /\ \E ok \in BOOLEAN, bad \in 0..(Len(events[dev]) + 1) :
         IF ok
         THEN /\ attendance' = Decoded(events[dev], bad)
              /\ pc' = "get_users"
              /\ log' = log \cup {"INFO"}
              /\ UNCHANGED cyc
         ELSE /\ bad = 0
              /\ Caught("get_attendance")
              /\ UNCHANGED attendance
    /\ UNCHANGED <<device_list, idx, now, last_sync_file, devVars, conn,
                   user_map, attendance_data, filtered, fetched_data, snapshot,
                   histVars>>

\* lines 167-168: users = conn.get_users(); user_map = {...}
GetUsers ==
    /\ pc = "get_users"
    /\ \E ok \in BOOLEAN :
         IF ok
         THEN /\ user_map' = Enrolled
              /\ pc' = "extract"
              /\ UNCHANGED <<log, cyc>>
         ELSE /\ Caught("get_users")
              /\ UNCHANGED user_map
    /\ UNCHANGED <<device_list, idx, now, last_sync_file, devVars, conn,
                   attendance, attendance_data, filtered, fetched_data, snapshot,
                   histVars>>

\* a store that never reaches the file
clear_and_store_lost(old, payload, stored) == old

\* lines 60-67: the snapshot file after the store, which may fail at open
clear_and_store_attendance_data(old, payload, stored) ==
    IF stored THEN Some(payload) ELSE old

\* a test that takes an empty list for a result
truthy_always(read) == TRUE

\* line 170: if attendance: an empty list is false
truthy(read) == read # <<>>

\* lines 170-202: build the dictionaries, filter, reduce, store, return
Extract ==
    /\ pc = "extract"
    /\ IF ~truthy(attendance)
       THEN /\ log' = log \cup {"INFO"}
            /\ pc' = "finally"
            /\ UNCHANGED <<attendance_data, filtered, fetched_data, snapshot, cyc>>
       ELSE IF \E i \in 1..Len(attendance) : attendance[i].timestamp = BadTs
       THEN /\ Caught("malformed")
            /\ UNCHANGED <<attendance_data, filtered, fetched_data, snapshot>>
       ELSE IF last_sync_file = NoFile
       THEN /\ Caught("watermark")
            /\ attendance_data' = to_attendance_data(attendance, user_map)
            /\ UNCHANGED <<filtered, fetched_data, snapshot>>
       ELSE \E stored \in BOOLEAN :
            LET data == to_attendance_data(attendance, user_map)
                kept == filter_data(data, last_sync_file, now)
                payload == formatted_attendance_data(kept)
            IN  /\ attendance_data' = data
                /\ filtered' = kept
                /\ fetched_data' = Some(payload)
                /\ snapshot' = clear_and_store_attendance_data(snapshot, payload, stored)
                /\ log' = log \cup (IF stored THEN {"INFO"} ELSE {"INFO", "ERROR"})
                /\ cyc' = [cyc EXCEPT !.nowFilter = now]
                /\ pc' = "finally"
    /\ UNCHANGED <<device_list, idx, now, last_sync_file, devVars, conn,
                   attendance, user_map, histVars>>

\* a loop body that sends whatever the fetch returned
AfterFetchAlways == "send_data"

\* line 337: is there a result to send
AfterFetch == IF fetched_data.some THEN "send_data" ELSE "next_device"

\* an exception leaves fetch_attendance_data or updateTheLastSyncDate: no
\* value is returned and __main__'s except clause is entered
Escape(what) ==
    /\ fetched_data' = None
    /\ cyc' = [cyc EXCEPT !.cause = IF @ = "none" THEN what ELSE @,
                          !.signal = IF @ = "none" THEN "main_failed" ELSE @,
                          !.teardown = IF what = "update" THEN @ ELSE what]
    /\ pc' = OnEscape

\* lines 206-208: finally: if conn: conn.enable_device()
EnableDevice ==
    /\ pc = "finally"
    /\ IF ~conn
       THEN /\ log' = log \cup {"INFO"}
            /\ pc' = AfterFetch
            /\ UNCHANGED <<disabled, fetched_data, cyc>>
       ELSE \E ok \in BOOLEAN :
            IF ok
            THEN /\ disabled' = [disabled EXCEPT ![dev] = FALSE]
                 /\ pc' = "disconnect"
                 /\ UNCHANGED <<log, fetched_data, cyc>>
            ELSE /\ Escape("enable_failed")
                 /\ UNCHANGED <<log, disabled>>
    /\ UNCHANGED <<device_list, idx, now, last_sync_file, events, session, conn,
                   attendance, user_map, attendance_data, filtered, snapshot,
                   histVars>>

\* lines 209-210: conn.disconnect()
Disconnect ==
    /\ pc = "disconnect"
    /\ \E ok \in BOOLEAN :
         IF ok
         THEN /\ session' = [session EXCEPT ![dev] = FALSE]
              /\ log' = log \cup {"INFO"}
              /\ cyc' = [cyc EXCEPT !.teardown = "ok"]
              /\ pc' = AfterFetch
              /\ UNCHANGED fetched_data
         ELSE /\ Escape("disconnect_failed")
              /\ UNCHANGED <<log, session>>
    /\ UNCHANGED <<device_list, idx, now, last_sync_file, events, disabled, conn,
                   attendance, user_map, attendance_data, filtered, snapshot,
                   histVars>>

\* lines 212-231 (called at 338-339): the POST to the collector; a
\* RequestException is caught and printed, nothing is raised or logged
sendDataToServer ==
    /\ pc = "send_data"
    /\ \E ok \in BOOLEAN :
         cyc' = [cyc EXCEPT !.deliver = IF ok THEN "ok" ELSE "fail"]
    /\ filteredSent' = [filteredSent EXCEPT ![dev] = @ \cup RecordsOf(filtered)]
    /\ log' = log \cup {"INFO"}
    /\ pc' = "send_log"
    /\ UNCHANGED <<device_list, idx, now, last_sync_file, devVars, localVars,
                   snapshot, outcomes, commits, sentCommitted>>

\* lines 233-266: the log file after the flush
LogAfterFlush(lg, readOk, postOk, clearOk) ==
    IF ~readOk THEN lg \cup {"ERROR"}
    ELSE LET posted == lg \cup {IF postOk THEN "INFO" ELSE "ERROR"}
         IN  IF clearOk THEN {"INFO"} ELSE posted \cup {"ERROR"}

\* a log flush that raises what it fails on
sendLogFileDataToserver_raising ==
    /\ pc = "send_log"
    /\ \E readOk \in BOOLEAN, postOk \in BOOLEAN, clearOk \in BOOLEAN :
         /\ ~readOk => (postOk /\ clearOk)
         /\ log' = LogAfterFlush(log, readOk, postOk, clearOk) \cup {"INFO"}
         /\ IF readOk /\ postOk /\ clearOk
            THEN /\ cyc' = [cyc EXCEPT !.logPost = "ok"]
                 /\ pc' = "update_sync"
                 /\ UNCHANGED fetched_data
            ELSE Escape("update")
    /\ UNCHANGED <<device_list, idx, now, last_sync_file, devVars, conn,
                   attendance, user_map, attendance_data, filtered, snapshot,
                   histVars>>

\* lines 340-341: sendLogFileDataToserver(device["ip"]), then a log line
sendLogFileDataToserver ==
    /\ pc = "send_log"
    /\ \E readOk \in BOOLEAN, postOk \in BOOLEAN, clearOk \in BOOLEAN :
         /\ ~readOk => (postOk /\ clearOk)
         /\ log' = LogAfterFlush(log, readOk, postOk, clearOk) \cup {"INFO"}
         /\ cyc' = [cyc EXCEPT !.logPost = IF ~readOk THEN "unread"
                                           ELSE IF postOk THEN "ok" ELSE "fail"]
    /\ pc' = "update_sync"
    /\ UNCHANGED <<device_list, idx, now, last_sync_file, devVars, localVars,
                   snapshot, histVars>>

\* lines 268-284 (called at 342)
updateTheLastSyncDate ==
    /\ pc = "update_sync"
    /\ IF last_sync_file = NoFile
       THEN /\ Escape("update")
            /\ UNCHANGED <<last_sync_file, commits, sentCommitted>>
       ELSE /\ last_sync_file' = strftime_midnight(now)
            /\ commits' = commits \cup {strftime_midnight(now)}
            /\ sentCommitted' = [sentCommitted EXCEPT ![dev] =
                   IF cyc.deliver = "ok" THEN @ \cup RecordsOf(filtered) ELSE @]
            /\ cyc' = [cyc EXCEPT !.committed = TRUE]
            /\ pc' = "next_device"
            /\ UNCHANGED fetched_data
    /\ UNCHANGED <<device_list, idx, now, devVars, conn, attendance, user_map,
                   attendance_data, filtered, snapshot, log, outcomes, filteredSent>>

\* lines 345-346: except Exception in the for loop body
MainExcept ==
    /\ pc = "main_except"
    /\ log' = log \cup {"ERROR"}
    /\ pc' = "next_device"
    /\ UNCHANGED <<device_list, idx, now, last_sync_file, devVars, localVars,
                   snapshot, cyc, histVars>>

\* the for loop steps to the next device, or the sweep is over (line 347)
NextDevice ==
    /\ pc = "next_device"
    /\ outcomes' = Append(outcomes, [device |-> dev,
                                     how |-> IF fetched_data.some THEN "result"
                                             ELSE IF cyc.signal = "main_failed"
                                                     \/ cyc.teardown \in {"enable_failed",
                                                                          "disconnect_failed"}
                                                  THEN "escaped" ELSE "no_result",
                                     flushed |-> cyc.logPost # "none",
                                     committed |-> cyc.committed])
    /\ IF idx < Len(device_list)
       THEN /\ idx' = idx + 1
            /\ pc' = "process"
            /\ UNCHANGED log
       ELSE /\ pc' = "sleep"
            /\ log' = log \cup {"INFO"}
            /\ UNCHANGED idx
    /\ conn' = FALSE
    /\ attendance' = <<>>
    /\ user_map' = {}
    /\ attendance_data' = <<>>
    /\ filtered' = <<>>
    /\ fetched_data' = None
    /\ cyc' = NoCycle
    /\ UNCHANGED <<device_list, now, last_sync_file, devVars, snapshot, commits,
                   sentCommitted, filteredSent>>

\* a script that makes one sweep and stops
SleepOnce ==
    /\ pc = "sleep"
    /\ pc' = "terminated"
    /\ UNCHANGED <<device_list, idx, now, last_sync_file, devVars, localVars,
                   snapshot, log, cyc, histVars>>

\* line 348: time.sleep(60), then the while loop starts the next sweep
Sleep ==
    /\ pc = "sleep"
    /\ pc' = "process"
    /\ idx' = 1
    /\ outcomes' = <<>>
    /\ UNCHANGED <<device_list, now, last_sync_file, devVars, localVars, snapshot,
                   log, cyc, commits, sentCommitted, filteredSent>>

Next ==
    \/ Tick
    \/ Punch
    \/ get_device_data
    \/ StartCycle
    \/ Connect
    \/ DisableDevice
    \/ GetAttendance
    \/ GetUsers
    \/ Extract
    \/ EnableDevice
    \/ Disconnect
    \/ sendDataToServer
    \/ sendLogFileDataToserver
    \/ updateTheLastSyncDate
    \/ MainExcept
    \/ NextDevice
    \/ Sleep

Spec == Init /\ [][Next]_vars

\* the steps of the script itself; the clock and the people who punch are
\* its environment.  Every call of the script returns (the connect timeout,
\* time.sleep(60)), so a step that stays possible is taken.
Step ==
    \/ get_device_data
    \/ StartCycle
    \/ Connect
    \/ DisableDevice
    \/ GetAttendance
    \/ GetUsers
    \/ Extract
    \/ EnableDevice
    \/ Disconnect
    \/ sendDataToServer
    \/ sendLogFileDataToserver
    \/ updateTheLastSyncDate
    \/ MainExcept
    \/ NextDevice
    \/ Sleep

\* the terminals as the script finds them at start-up: each holds no punch
\* or one punch made before the script started
StoredAtStart == [Devices -> {<<>>, <<[user_id |-> 1, timestamp |-> 0, status |-> 0]>>}]

InitFair ==
    /\ pc = "start"
    /\ device_list = <<>>
    /\ idx = 1
    /\ now = 0
    /\ last_sync_file \in Watermarks \cup {NoFile}
    /\ events \in StoredAtStart
    /\ disabled = [d \in Devices |-> FALSE]
    /\ session = [d \in Devices |-> FALSE]
    /\ conn = FALSE
    /\ attendance = <<>>
    /\ user_map = {}
    /\ attendance_data = <<>>
    /\ filtered = <<>>
    /\ fetched_data = None
    /\ snapshot = None
    /\ log = {}
    /\ cyc = NoCycle
    /\ outcomes = <<>>
    /\ commits = {}
    /\ sentCommitted = [d \in Devices |-> {}]
    /\ filteredSent = [d \in Devices |-> {}]

\* the script running for ever beside the clock
NextFair == Step \/ Tick

SpecFair == InitFair /\ [][NextFair]_vars /\ WF_vars(Step)

\* the same fleet with last_sync_date.json provisioned at the start of day 0,
\* so that no stored punch lies before the initial watermark
InitShared == InitFair /\ last_sync_file = strftime_iso(0)

SpecShared == InitShared /\ [][NextFair]_vars

\* ------------------------------------------ the filter and the reducer
\* filter_data and formatted_attendance_data applied to any list of records,
\* any watermark and any clock reading
BSeq(S, n) == UNION {[1..k -> S] : k \in 0..n}

PipeRecords == {[user_id |-> u, user_name |-> u, time |-> strftime(t), status |-> s] :
                  u \in PipeUsers, t \in 0..PipeMaxTs, s \in Statuses}

InitPipe ==
    /\ pc = "p_in"
    /\ attendance_data \in BSeq(PipeRecords, MaxLen)
    /\ last_sync_file \in {strftime_iso(t) : t \in 0..PipeMaxTs}
    /\ now \in 0..PipeMaxTs
    /\ device_list = <<>>
    /\ idx = 1
    /\ events = [d \in Devices |-> <<>>]
    /\ disabled = [d \in Devices |-> FALSE]
    /\ session = [d \in Devices |-> FALSE]
    /\ conn = FALSE
    /\ attendance = <<>>
    /\ user_map = {}
    /\ filtered = <<>>
    /\ fetched_data = None
    /\ snapshot = None
    /\ log = {}
    /\ cyc = NoCycle
    /\ outcomes = <<>>
    /\ commits = {}
    /\ sentCommitted = [d \in Devices |-> {}]
    /\ filteredSent = [d \in Devices |-> {}]

\* line 191
PipeFilter ==
    /\ pc = "p_in"
    /\ filtered' = filter_data(attendance_data, last_sync_file, now)
    /\ pc' = "p_filtered"
    /\ UNCHANGED <<device_list, idx, now, last_sync_file, devVars, conn,
                   attendance, user_map, attendance_data, fetched_data, snapshot,
                   log, cyc, histVars>>

\* line 194
PipeFormat ==
    /\ pc = "p_filtered"
    /\ fetched_data' = Some(formatted_attendance_data(filtered))
    /\ pc' = "p_formatted"
    /\ UNCHANGED <<device_list, idx, now, last_sync_file, devVars, conn,
                   attendance, user_map, attendance_data, filtered, snapshot,
                   log, cyc, histVars>>

NextPipe == PipeFilter \/ PipeFormat

SpecPipe == InitPipe /\ [][NextPipe]_vars

\* ======================================================= properties
\* the instant a record's time string denotes
InstantOf(r) == r.time[1] * TicksPerDay + r.time[2]

\* the k-th smallest member of a set of indices
KthOf(S, k) == CHOOSE i \in S : Cardinality({j \in S : j <= i}) = k

\* the places of the input whose timestamp lies in [watermark, now]
InWindow == {i \in 1..Len(attendance_data) :
               /\ last_sync_file[1] * TicksPerDay + last_sync_file[2]
                      <= InstantOf(attendance_data[i])
               /\ InstantOf(attendance_data[i]) <= now}

\* C7: filter_data returns exactly the records with watermark <= timestamp
\* <= now, both bounds included, in input order, and filtering its output
\* again with the same bounds returns the same list.
C7_FilterExact ==
    pc \in {"p_filtered", "p_formatted"} =>
        /\ Len(filtered) = Cardinality(InWindow)
        /\ \A k \in 1..Len(filtered) :
               filtered[k] = attendance_data[KthOf(InWindow, k)]
        /\ filter_data(filtered, last_sync_file, now) = filtered

\* C7 witness: a record below the window, one on both bounds at once and
\* one above it have been filtered
C7_Witness ==
    /\ pc = "p_filtered"
    /\ Len(attendance_data) = 3
    /\ fromisoformat(last_sync_file) = now
    /\ InstantOf(attendance_data[1]) < now
    /\ InstantOf(attendance_data[2]) = now
    /\ InstantOf(attendance_data[3]) > now
    /\ filtered = <<attendance_data[2]>>

\* the places of the filtered list that fall on date d for user u
GroupOf(d, u) == {i \in 1..Len(filtered) :
                    filtered[i].time[1] = d /\ filtered[i].user_id = u}

GroupKeys == {<<filtered[i].time[1], filtered[i].user_id>> : i \in 1..Len(filtered)}

\* the first-arrived record with the least timestamp, the last-arrived with
\* the greatest
EarliestOf(G) == CHOOSE i \in G : \A j \in G :
                    \/ InstantOf(filtered[i]) < InstantOf(filtered[j])
                    \/ (InstantOf(filtered[i]) = InstantOf(filtered[j]) /\ i <= j)
LatestOf(G) == CHOOSE i \in G : \A j \in G :
                    \/ InstantOf(filtered[i]) > InstantOf(filtered[j])
                    \/ (InstantOf(filtered[i]) = InstantOf(filtered[j]) /\ i >= j)

\* an output record is the input record at place i, its time carrying the offset
SameRecord(out, i) ==
    /\ out.user_id = filtered[i].user_id
    /\ out.user_name = filtered[i].user_name
    /\ out.status = filtered[i].status
    /\ out.time = <<filtered[i].time[1], filtered[i].time[2], Offset>>

AllIdentical(G) == \A i, j \in G : filtered[i] = filtered[j]

\* the payload has one entry per (date, user) that has records, and no other
PayloadKeysExact ==
    /\ DOMAIN fetched_data.data = {k[1] : k \in GroupKeys}
    /\ \A d \in DOMAIN fetched_data.data :
           DOMAIN fetched_data.data[d] = {k[2] : k \in {g \in GroupKeys : g[1] = d}}

\* C6 as claimed: one record if N = 1 or all records of the group are
\* identical, otherwise exactly two, the minimum and the maximum by timestamp.
C6_AsClaimed ==
    pc = "p_formatted" =>
        /\ PayloadKeysExact
        /\ \A k \in GroupKeys :
             LET G == GroupOf(k[1], k[2])
                 out == fetched_data.data[k[1]][k[2]]
             IN  IF Cardinality(G) = 1 \/ AllIdentical(G)
                 THEN Len(out) = 1 /\ SameRecord(out[1], EarliestOf(G))
                 ELSE /\ Len(out) = 2
                      /\ SameRecord(out[1], EarliestOf(G))
                      /\ SameRecord(out[2], LatestOf(G))

\* C6 as amended: one record if the first record of the group in timestamp
\* order (ties in arrival order) equals the last one, which is the case when
\* N = 1 and when all timestamps are equal and the first-arrived record is
\* identical to the last-arrived; otherwise exactly two, that first and that
\* last record; never more than two.
C6_FirstLast ==
    pc = "p_formatted" =>
        /\ PayloadKeysExact
        /\ \A k \in GroupKeys :
             LET G == GroupOf(k[1], k[2])
                 out == fetched_data.data[k[1]][k[2]]
                 lo == EarliestOf(G)
                 hi == LatestOf(G)
             IN  IF filtered[lo] = filtered[hi]
                 THEN Len(out) = 1 /\ SameRecord(out[1], lo)
                 ELSE /\ Len(out) = 2
                      /\ SameRecord(out[1], lo)
                      /\ SameRecord(out[2], hi)

\* C6 witness: a group of three records with one timestamp, the middle one
\* differing, has been reduced to a single record
C6_Witness ==
    /\ pc = "p_formatted"
    /\ Len(filtered) = 3
    /\ Cardinality(GroupKeys) = 1
    /\ filtered[1] = filtered[3]
    /\ filtered[1] # filtered[2]
    /\ InstantOf(filtered[1]) = InstantOf(filtered[2])
    /\ Len(fetched_data.data[filtered[1].time[1]][filtered[1].user_id]) = 1

\* the script is inside the cycle of device dev
InCycle == pc \in {"connect", "disable", "get_attendance", "get_users", "extract",
                   "finally", "disconnect", "send_data", "send_log", "update_sync",
                   "main_except", "next_device"}

\* the cycle of device dev has ended
CycleEnded == pc = "next_device"

\* C1: in a cycle whose delivery failed, the watermark after the cycle is
\* the watermark before the cycle; in particular it has not advanced.
C1_NoAdvanceOnFailedDelivery ==
    (CycleEnded /\ cyc.deliver = "fail") =>
        fromisoformat(last_sync_file) <= fromisoformat(cyc.wmBefore)

\* C2 as claimed: a punch that was in the input of a delivered and committed
\* cycle is in no later cycle's filter output for that device.
C2_NeverResent ==
    (InCycle /\ ~cyc.committed) =>
        RecordsOf(filtered) \cap sentCommitted[dev] = {}

\* C2 as amended: once a commit has written watermark W, no later cycle
\* passes a punch stamped before W through the filter (punches stamped at or
\* after W, the start of the day of the commit, are passed again).
C2_NoResendBelowCommit ==
    (InCycle /\ ~cyc.committed) =>
        \A i \in 1..Len(filtered) : \A w \in commits :
            w[1] * TicksPerDay + w[2] <= InstantOf(filtered[i])

\* C2 witness: a punch delivered and committed earlier is still stored on the
\* device, lies before a committed watermark, and the filter of a later
\* cycle has left it out
C2_Witness ==
    /\ pc = "finally"
    /\ fetched_data.some
    /\ \E i \in 1..Len(attendance_data) :
         /\ [user_id |-> attendance_data[i].user_id,
             time |-> attendance_data[i].time,
             status |-> attendance_data[i].status] \in sentCommitted[dev]
         /\ \E w \in commits :
                InstantOf(attendance_data[i]) < w[1] * TicksPerDay + w[2]
         /\ \A k \in 1..Len(filtered) : filtered[k] # attendance_data[i]

\* C3: whatever happens in one device's cycle, the sweep gives every device
\* of the list its cycle, in list order; a device whose fetch returned a
\* result got its log flush and its watermark commit; the process ends only
\* when the device list was empty.
C3_FailureIsolation ==
    /\ pc = "sleep" =>
          /\ Len(outcomes) = Len(device_list)
          /\ \A i \in 1..Len(outcomes) :
                /\ outcomes[i].device = device_list[i]
                /\ outcomes[i].how = "result" =>
                       (outcomes[i].flushed /\ outcomes[i].committed)
    /\ pc = "terminated" => device_list = <<>>
    /\ (CycleEnded /\ fetched_data.some) => (cyc.logPost # "none" /\ cyc.committed)

\* C3 witness: the sweep is over, an exception escaped the first device's
\* cycle and the second device was flushed and committed
C3_Witness ==
    /\ pc = "sleep"
    /\ Len(device_list) = 2
    /\ outcomes[1].how = "escaped"
    /\ outcomes[2].how = "result"
    /\ outcomes[2].flushed
    /\ outcomes[2].committed

\* C4: when connect succeeded, enable_device and disconnect have both been
\* executed when the cycle ends, whatever the exit path, and the device is
\* left with intake enabled and no session open.
C4_GuaranteedTeardown ==
    (CycleEnded /\ cyc.connected) =>
        /\ cyc.teardown \in {"ok", "disconnect_failed"}
        /\ ~disabled[dev]
        /\ cyc.teardown = "ok" => ~session[dev]

\* C5: every commit writes a watermark not less than the one it replaces
\* (stated for a watermark that is not ahead of the clock).
C5_WatermarkMonotone ==
    (CycleEnded /\ cyc.committed /\ fromisoformat(cyc.wmBefore) <= now) =>
        fromisoformat(cyc.wmBefore) <= fromisoformat(last_sync_file)

\* C8: a cycle that fails on an unreadable watermark is signalled otherwise
\* than a failed fetch and is not skipped like one.
C8_WatermarkErrorDistinct ==
    cyc.cause = "watermark" =>
        /\ cyc.signal # FetchErrorSignal
        /\ ~CycleEnded

\* C9: a log flush whose POST failed leaves the log file's content in place.
C9_TruncateOnlyAfterPost ==
    [][(pc = "send_log" /\ cyc'.logPost = "fail") => log \subseteq log']_vars

\* the well-formed punches read in this cycle that lie in [watermark, now]
GoodInWindow == {i \in 1..Len(attendance) :
                   /\ attendance[i].timestamp # BadTs
                   /\ fromisoformat(cyc.wmBefore) <= attendance[i].timestamp
                   /\ attendance[i].timestamp <= now}

\* C10: a malformed punch is dropped alone: when the device returned one
\* malformed punch beside well-formed punches of the window, nothing else
\* failed, the watermark is readable and the teardown is done, the cycle
\* has gone on to delivery with the well-formed punches in the filter's
\* output.
C10_MalformedDroppedAlone ==
    (/\ CycleEnded
     /\ \E i \in 1..Len(attendance) : attendance[i].timestamp = BadTs
     /\ cyc.wmBefore # NoFile
     /\ GoodInWindow # {}
     /\ cyc.cause \in {"none", "malformed"}
     /\ cyc.teardown = "ok") =>
        /\ cyc.deliver # "none"
        /\ \A i \in GoodInWindow :
              \E k \in 1..Len(filtered) :
                  strptime(filtered[k].time) = attendance[i].timestamp

\* C11: with an empty device list the script terminates and no device cycle
\* has run; with a non-empty one it never terminates, the list never changes
\* after start-up, the cycles of a sweep are those of the devices of the
\* list, one each, in list order, and every device of the list ends a cycle
\* again and again.
C11_FleetScheduling ==
    /\ [](pc = "terminated" =>
            /\ device_list = <<>>
            /\ outcomes = <<>> /\ cyc = NoCycle
            /\ snapshot = None /\ commits = {})
    /\ []((pc # "start" /\ device_list = <<>>) => pc = "terminated")
    /\ [][pc # "start" => device_list' = device_list]_vars
    /\ [](pc \notin {"start", "terminated"} =>
            /\ Len(outcomes) = (IF pc = "sleep" THEN Len(device_list) ELSE idx - 1)
            /\ \A i \in 1..Len(outcomes) : outcomes[i].device = device_list[i])
    /\ \A d \in Devices :
          []<>(d \in 1..Len(device_list) => (CycleEnded /\ device_list[idx] = d))

\* C11 witness: in a later sweep the loop is at the second device of the list
\* again, which was delivered and committed in an earlier sweep
C11_Witness ==
    /\ pc = "connect"
    /\ Len(device_list) = 2
    /\ idx = 2
    /\ sentCommitted[device_list[2]] # {}

C13_LogFlushBestEffort ==
    /\ (CycleEnded /\ cyc.deliver = "ok") =>
           /\ cyc.logPost \in {"ok", "fail", "unread"}
           /\ cyc.committed
           /\ last_sync_file \in commits
           /\ cyc.signal = "none"
    /\ pc = "main_except" => cyc.logPost = "none"

\* C13 witness: delivery succeeded, the log POST failed, and the cycle has
\* ended with the watermark committed
C13_Witness ==
    /\ CycleEnded
    /\ cyc.deliver = "ok"
    /\ cyc.logPost = "fail"
    /\ cyc.committed
    /\ "ERROR" \in log

\* what fetch_attendance_data can fail on: connect, and the extraction after it
FetchCauses == {"connect", "disable", "get_attendance", "get_users",
                "malformed", "watermark"}

\* C14: a cycle whose connect failed or whose extraction raised goes
\* straight to its end: connect is not tried again, nothing is delivered,
\* the log is not flushed, the watermark and the snapshot are those of the
\* start of the cycle; when connect itself failed no device call follows
\* (no disable_device, no enable_device, no disconnect).
C14_FailedCycleNoEffects ==
    cyc.cause \in FetchCauses =>
        /\ pc \in {"finally", "disconnect", "main_except", "next_device"}
        /\ ~fetched_data.some
        /\ cyc.deliver = "none"
        /\ cyc.logPost = "none"
        /\ ~cyc.committed
        /\ last_sync_file = cyc.wmBefore
        /\ snapshot = cyc.snapBefore
        /\ cyc.cause = "connect" =>
               /\ ~conn
               /\ ~cyc.connected
               /\ cyc.teardown = "none"
               /\ pc \in {"finally", "next_device"}

\* C14 witness: the cycle of a device that holds a punch in the window has
\* ended after get_users raised, an earlier cycle having left a snapshot
C14_Witness ==
    /\ CycleEnded
    /\ cyc.cause = "get_users"
    /\ cyc.teardown = "ok"
    /\ Len(attendance) > 0
    /\ snapshot.some
    /\ last_sync_file # NoFile

\* C15: when the device returned punches and all of them lie before the
\* watermark, the fetch returns the empty mapping (a result, not None), the
\* empty payload is delivered, and the watermark follows the delivery: it is
\* committed when the delivery succeeded and not advanced when it failed.
C15_EmptyPayloadDelivered ==
    (/\ CycleEnded
     /\ cyc.cause = "none"
     /\ cyc.teardown = "ok"
     /\ cyc.wmBefore # NoFile
     /\ Len(attendance) > 0
     /\ \A i \in 1..Len(attendance) :
            /\ attendance[i].timestamp # BadTs
            /\ attendance[i].timestamp < fromisoformat(cyc.wmBefore)) =>
        /\ fetched_data.some
        /\ fetched_data.data = <<>>
        /\ cyc.deliver # "none"
        /\ cyc.deliver = "ok" => cyc.committed
        /\ cyc.deliver = "fail" =>
               fromisoformat(last_sync_file) <= fromisoformat(cyc.wmBefore)

\* the punches get_attendance returned, without an undecodable one
WellFormed(read) == SelectSeq(read, LAMBDA e : e.timestamp # BadTs)

\* C16: from the event read to the end of the user read the terminal has its
\* intake disabled and its session open, and it has accepted no punch: what
\* it stores is still what get_attendance returned.
C16_IntakeSuspended ==
    /\ pc \in {"get_attendance", "get_users", "extract"} =>
           (disabled[dev] /\ session[dev])
    /\ pc \in {"get_users", "extract"} =>
           WellFormed(attendance) = events[dev]

\* C16 witness: the punches of an intake-disabled terminal have been read
\* and its users are about to be read
C16_Witness ==
    /\ pc = "get_users"
    /\ disabled[dev]
    /\ Len(events[dev]) > 0
    /\ attendance = events[dev]
    /\ now > attendance[1].timestamp

\* C17: every punch stored on a registered device and stamped before the
\* current watermark has passed the filter of a cycle of that device whose
\* payload was posted (the initial watermark is the start of day 0, before
\* which there is no punch).
C17_NoPunchSkipped ==
    \A k \in 1..Len(device_list) :
        \A i \in 1..Len(events[device_list[k]]) :
            LET e == events[device_list[k]][i]
            IN  e.timestamp < fromisoformat(last_sync_file) =>
                    [user_id |-> e.user_id, time |-> strftime(e.timestamp),
                     status |-> e.status] \in filteredSent[device_list[k]]

\* C18: the watermark a cycle commits is the start of the day of the clock
\* reading its filter used as upper bound, and so does not exceed that bound.
C18_NowCapturedOnce ==
    (CycleEnded /\ cyc.committed) =>
        /\ last_sync_file = strftime_midnight(cyc.nowFilter)
        /\ fromisoformat(last_sync_file) <= cyc.nowFilter

C20_TeardownBeforeDelivery ==
    pc \in {"send_data", "send_log", "update_sync", "sleep"} =>
        \A d \in Devices : ~session[d] /\ ~disabled[d]

====
